---------------------------- MODULE Spec2Model ----------------------------
(***************************************************************************)
(* IPv4 Fragmentation Visualizer: the fragmentation engine                 *)
(* (IPv4Fragmenter.fragment_packet, validate_fragmentation_inputs) and the *)
(* application handlers that drive it (simulate_fragmentation,             *)
(* export_to_csv, reset_inputs, toggle_theme/refresh_ui).                  *)
(*                                                                         *)
(* A fragment is the 4-tuple of the source,                                *)
(*   <<fragment_id, data_length, fragment_offset, sequence_num>>.          *)
(***************************************************************************)
EXTENDS Integers, Sequences, FiniteSets, TLC

VARIABLES
    current_results,   \* self.current_results: None or the report dict
    export_btn,        \* state of self.export_btn: "disabled" | "normal"
    viz,               \* children of self.viz_scroll, in pack order
    last_dialog,       \* title of the messagebox the last handler showed
    fp,                \* one direct call of IPv4Fragmenter.fragment_packet
    val,               \* one direct call of validate_fragmentation_inputs
    sim,               \* simulate_fragmentation's hop loop, run step by step
    call               \* the frame of fragment_packet, run step by step

vars == <<current_results, export_btn, viz, last_dialog, fp, val, sim, call>>

-----------------------------------------------------------------------------
(* AppConfig defaults: validation limits *)

min_packet_size == 20
max_packet_size == 65535
min_header_size == 20
max_header_size == 60
min_mtu == 68
max_mtu == 65535
\* the literal of fragment_packet's offset check
max_fragment_offset == 8191

-----------------------------------------------------------------------------
(* Bounds of the model *)

\* longest MTU path drawn as an input
MaxHops == 2

\* longest MTU path drawn for a direct call of the validator
MaxPathLen == 3

\* most loop iterations a drawn call of fragment_packet may need
MaxFragments == 100

-----------------------------------------------------------------------------
(* Fragment tuples *)

FragId(f)  == f[1]
DataLen(f) == f[2]
Offset(f)  == f[3]
SeqNum(f)  == f[4]

Min(a, b) == IF a < b THEN a ELSE b

-----------------------------------------------------------------------------
(* IPv4Fragmenter.fragment_packet *)

\* a mutant: aligns to the header's 4-byte unit instead of the 8-byte unit
AlignDown4(n) == (n \div 4) * 4

\* (x // 8) * 8
AlignDown8(n) == (n \div 8) * 8

\* a mutant: max_data is left as mtu - header_size
MaxDataUnaligned(mtu, header_size) == mtu - header_size

\* a mutant: the header is not subtracted from the MTU
MaxDataIgnoresHeader(mtu, header_size) == AlignDown8(mtu)

\* max_data = mtu - header_size, then floored to a multiple of 8
MaxData(mtu, header_size) == AlignDown8(mtu - header_size)

\* a mutant: the chunk is floored to a multiple of 8 even when it is the last
FragDataAlwaysAligned(remaining_data, max_data) ==
    AlignDown8(Min(remaining_data, max_data))

\* frag_data of one loop iteration
FragData(remaining_data, max_data) ==
    IF remaining_data > max_data
    THEN AlignDown8(Min(remaining_data, max_data))
    ELSE Min(remaining_data, max_data)

\* a mutant: the byte offset is stored without the division by 8
FragmentOffsetBytes(current_offset) == current_offset

\* fragment_offset = current_offset // 8
FragmentOffset(current_offset) == current_offset \div 8

\* a mutant: the limit is taken one unit too high
OffsetTooLargeOffByOne(fragment_offset) == fragment_offset > max_fragment_offset + 1

\* if fragment_offset > 8191
OffsetTooLarge(fragment_offset) == fragment_offset > max_fragment_offset

\* a raised ValueError: no list is returned
Raise(msg) == [ok |-> FALSE, error |-> msg, fragments |-> <<>>]

Return(fragments) == [ok |-> TRUE, error |-> "none", fragments |-> fragments]

\* the while loop of fragment_packet; s holds the loop's local variables
\* fragments, remaining_data, current_offset, seq_num
RECURSIVE FragmentLoop(_, _, _)
FragmentLoop(s, max_data, fragment_id) ==
    IF ~(s.remaining_data > 0)
    THEN Return(s.fragments)
    ELSE LET frag_data == FragData(s.remaining_data, max_data)
             fragment_offset == FragmentOffset(s.current_offset)
         IN  IF OffsetTooLarge(fragment_offset)
             THEN Raise("offset exceeds maximum")
             ELSE FragmentLoop(
                      [fragments |-> Append(s.fragments,
                                            <<fragment_id, frag_data, fragment_offset, s.seq_num>>),
                       remaining_data |-> s.remaining_data - frag_data,
                       current_offset |-> s.current_offset + frag_data,
                       seq_num |-> s.seq_num + 1],
                      max_data, fragment_id)

FragmentPacket(data_size, offset, header_size, mtu, fragment_id) ==
    IF data_size < 0 THEN Raise("data size cannot be negative")
    ELSE IF data_size = 0 THEN Raise("no data to fragment")
    ELSE IF mtu < header_size + 8 THEN Raise("mtu too small")
    ELSE FragmentLoop([fragments |-> <<>>, remaining_data |-> data_size,
                       current_offset |-> offset, seq_num |-> 1],
                      MaxData(mtu, header_size), fragment_id)

-----------------------------------------------------------------------------
(* IPv4Fragmenter.validate_fragmentation_inputs *)

Accept == [ok |-> TRUE, rule |-> "none", hop |-> 0]

Reject(rule, hop) == [ok |-> FALSE, rule |-> rule, hop |-> hop]

\* a mutant: the room for header + 8 bytes is checked before the limits
CheckMtuHeaderFirst(mtu, header_size) ==
    IF mtu < header_size + 8 THEN "mtu too small for header"
    ELSE IF mtu < min_mtu THEN "mtu below minimum"
    ELSE IF mtu > max_mtu THEN "mtu exceeds maximum"
    ELSE "none"

\* a mutant: the minimum MTU itself is refused
CheckMtuStrictMin(mtu, header_size) ==
    IF mtu <= min_mtu THEN "mtu below minimum"
    ELSE IF mtu > max_mtu THEN "mtu exceeds maximum"
    ELSE IF mtu < header_size + 8 THEN "mtu too small for header"
    ELSE "none"

\* the checks made on one MTU of the path, in the order of the loop body
CheckMtu(mtu, header_size) ==
    IF mtu < min_mtu THEN "mtu below minimum"
    ELSE IF mtu > max_mtu THEN "mtu exceeds maximum"
    ELSE IF mtu < header_size + 8 THEN "mtu too small for header"
    ELSE "none"

\* a mutant: the message names the 0-based index i of enumerate, not i+1
RECURSIVE ValidateMtuPathZeroBased(_, _, _)
ValidateMtuPathZeroBased(mtu_path, header_size, i) ==
    IF i > Len(mtu_path) THEN Accept
    ELSE LET rule == CheckMtu(mtu_path[i], header_size)
         IN  IF rule # "none" THEN Reject(rule, i - 1)
             ELSE ValidateMtuPathZeroBased(mtu_path, header_size, i + 1)

\* for i, mtu in enumerate(mtu_path): the first failing hop raises, naming hop i+1
\* (i is 1-based here, so the position reported is i)
RECURSIVE ValidateMtuPath(_, _, _)
ValidateMtuPath(mtu_path, header_size, i) ==
    IF i > Len(mtu_path) THEN Accept
    ELSE LET rule == CheckMtu(mtu_path[i], header_size)
         IN  IF rule # "none" THEN Reject(rule, i)
             ELSE ValidateMtuPath(mtu_path, header_size, i + 1)

\* a mutant: the upper limit of the packet size is not checked
ValidateFragmentationInputsNoMaxPacket(packet_size, header_size, mtu_path) ==
    IF packet_size < min_packet_size THEN Reject("packet size below minimum", 0)
    ELSE IF header_size < min_header_size THEN Reject("header size below minimum", 0)
    ELSE IF header_size > max_header_size THEN Reject("header size exceeds maximum", 0)
    ELSE IF header_size % 4 # 0 THEN Reject("header size not multiple of 4", 0)
    ELSE IF packet_size - header_size < 0 THEN Reject("packet not greater than header", 0)
    ELSE IF packet_size - header_size = 0 THEN Reject("packet contains no data", 0)
    ELSE IF mtu_path = <<>> THEN Reject("mtu path empty", 0)
    ELSE ValidateMtuPath(mtu_path, header_size, 1)

ValidateFragmentationInputs(packet_size, header_size, mtu_path) ==
    IF packet_size < min_packet_size THEN Reject("packet size below minimum", 0)
    ELSE IF packet_size > max_packet_size THEN Reject("packet size exceeds maximum", 0)
    ELSE IF header_size < min_header_size THEN Reject("header size below minimum", 0)
    ELSE IF header_size > max_header_size THEN Reject("header size exceeds maximum", 0)
    ELSE IF header_size % 4 # 0 THEN Reject("header size not multiple of 4", 0)
    ELSE IF packet_size - header_size < 0 THEN Reject("packet not greater than header", 0)
    ELSE IF packet_size - header_size = 0 THEN Reject("packet contains no data", 0)
    ELSE IF mtu_path = <<>> THEN Reject("mtu path empty", 0)
    ELSE ValidateMtuPath(mtu_path, header_size, 1)

-----------------------------------------------------------------------------
(* IPv4FragmentationApp: the report and the visualization area *)

\* self.current_results = None
NoResults ==
    [is_none |-> TRUE, fragment_id |-> 0, original_packet_size |-> 0,
     header_size |-> 0, mtu_path |-> <<>>, hops |-> <<>>]

\* a mutant: the dict is reused and its 'hops' list is not emptied
NewResultsKeepsHops(fragment_id, packet_size, header_size, mtu_path, hops) ==
    [is_none |-> FALSE, fragment_id |-> fragment_id,
     original_packet_size |-> packet_size, header_size |-> header_size,
     mtu_path |-> mtu_path, hops |-> current_results.hops \o hops]

\* the dict stored before the hop loop starts; 'hops' grows in the loop
NewResults(fragment_id, packet_size, header_size, mtu_path, hops) ==
    [is_none |-> FALSE, fragment_id |-> fragment_id,
     original_packet_size |-> packet_size, header_size |-> header_size,
     mtu_path |-> mtu_path, hops |-> hops]

\* a mutant: the hop is stored under the 0-based index of enumerate
HopDataZeroBased(hop_num, mtu, fragments) ==
    [hop_num |-> hop_num - 1, mtu |-> mtu, fragments |-> fragments]

\* hop_data: the hop number, its MTU and a copy of the hop's fragment list
HopData(hop_num, mtu, fragments) ==
    [hop_num |-> hop_num, mtu |-> mtu, fragments |-> fragments]

\* widgets packed into viz_scroll
WelcomeWidget == [kind |-> "welcome", hop_num |-> 0, mtu |-> 0, fragments |-> <<>>]

FooterWidget == [kind |-> "footer", hop_num |-> 0, mtu |-> 0, fragments |-> <<>>]

\* create_hop_table: one table per hop, rows in list order
HopTable(hop_num, mtu, fragments) ==
    [kind |-> "hop_table", hop_num |-> hop_num, mtu |-> mtu, fragments |-> fragments]

\* a mutant: the 0-based bound len(fragments) - 1 is applied to the 1-based row
MfFlagZeroBasedBound(fragments, idx) == idx < Len(fragments) - 1

\* the MF cell of row idx (1-based) of a table or CSV section
MfFlag(fragments, idx) == idx < Len(fragments)

-----------------------------------------------------------------------------
(* IPv4FragmentationApp.simulate_fragmentation: the hop loop *)

\* a mutant: the header is not subtracted from the packet size
InitialFragmentsWholePacket(packet_size, header_size, fragment_id) ==
    << <<fragment_id, packet_size, 0, 1>> >>

\* data_size = packet_size - header_size; fragments = [(fragment_id, data_size, 0, 1)]
InitialFragments(packet_size, header_size, fragment_id) ==
    << <<fragment_id, packet_size - header_size, 0, 1>> >>

\* a mutant: a fragment that fills the MTU exactly is sent to the fragmenter
FitsStrict(data_len, header_size, mtu) == data_len + header_size < mtu

\* if data_len + header_size <= mtu
Fits(data_len, header_size, mtu) == data_len + header_size <= mtu

\* for idx, (fid, dlen, off, _) in enumerate(sub_fragments): append renumbered;
\* s holds new_fragments and the position idx in sub_fragments
RECURSIVE AppendRenumbered(_, _)
AppendRenumbered(s, sub_fragments) ==
    IF s.idx > Len(sub_fragments) THEN s.new_fragments
    ELSE LET sf == sub_fragments[s.idx]
             new_seq == Len(s.new_fragments) + 1
         IN  AppendRenumbered(
                 [new_fragments |-> Append(s.new_fragments,
                                           <<FragId(sf), DataLen(sf), Offset(sf), new_seq>>),
                  idx |-> s.idx + 1],
                 sub_fragments)

\* the inner loop over the fragments entering a hop; s holds new_fragments and
\* the position i in fragments
RECURSIVE ProcessHop(_, _, _, _)
ProcessHop(s, fragments, header_size, mtu) ==
    IF s.i > Len(fragments) THEN Return(s.new_fragments)
    ELSE LET f == fragments[s.i]
         IN  IF Fits(DataLen(f), header_size, mtu)
             THEN ProcessHop([new_fragments |-> Append(s.new_fragments, f), i |-> s.i + 1],
                             fragments, header_size, mtu)
             ELSE LET offset_bytes == Offset(f) * 8
                      sub == FragmentPacket(DataLen(f), offset_bytes, header_size, mtu, FragId(f))
                  IN  IF ~sub.ok THEN sub
                      ELSE ProcessHop(
                               [new_fragments |->
                                    AppendRenumbered([new_fragments |-> s.new_fragments, idx |-> 1],
                                                     sub.fragments),
                                i |-> s.i + 1],
                               fragments, header_size, mtu)

\* a mutant: 'fragments = new_fragments' is missing, every hop starts again
\* from the list that entered the first hop
RECURSIVE RunHopsFromOriginal(_, _, _)
RunHopsFromOriginal(s, mtu_path, header_size) ==
    IF s.hop_idx > Len(mtu_path)
    THEN [ok |-> TRUE, hops |-> s.hops, tables |-> s.tables]
    ELSE LET mtu == mtu_path[s.hop_idx]
             r == ProcessHop([new_fragments |-> <<>>, i |-> 1], s.fragments, header_size, mtu)
         IN  IF ~r.ok
             THEN [ok |-> FALSE, hops |-> s.hops, tables |-> s.tables]
             ELSE RunHopsFromOriginal(
                      [hop_idx |-> s.hop_idx + 1,
                       fragments |-> s.fragments,
                       hops |-> Append(s.hops, HopData(s.hop_idx, mtu, r.fragments)),
                       tables |-> Append(s.tables, HopTable(s.hop_idx, mtu, r.fragments))],
                      mtu_path, header_size)

\* the outer loop over mtu_path; s holds the fragments entering hop hop_idx, the
\* hops stored in current_results and the tables drawn so far
RECURSIVE RunHops(_, _, _)
RunHops(s, mtu_path, header_size) ==
    IF s.hop_idx > Len(mtu_path)
    THEN [ok |-> TRUE, hops |-> s.hops, tables |-> s.tables]
    ELSE LET mtu == mtu_path[s.hop_idx]
             r == ProcessHop([new_fragments |-> <<>>, i |-> 1], s.fragments, header_size, mtu)
         IN  IF ~r.ok
             THEN [ok |-> FALSE, hops |-> s.hops, tables |-> s.tables]
             ELSE RunHops([hop_idx |-> s.hop_idx + 1,
                           fragments |-> r.fragments,
                           hops |-> Append(s.hops, HopData(s.hop_idx, mtu, r.fragments)),
                           tables |-> Append(s.tables, HopTable(s.hop_idx, mtu, r.fragments))],
                          mtu_path, header_size)

-----------------------------------------------------------------------------
(* Inputs drawn by the model *)

\* MTU paths of at most max_len hops over a set of MTUs
Paths(mtus, max_len) == UNION {[1..n -> mtus] : n \in 0..max_len}

\* what the user may have typed into the three entries
AppPacketSizes == {20, 100, 200}
AppHeaderSizes == {20, 24}
AppMtus == {60, 68, 100}

\* text that int() parses, and one entry whose text int() rejects
Entries ==
    [parses : {TRUE}, packet_size : AppPacketSizes, header_size : AppHeaderSizes,
     mtu_path : Paths(AppMtus, MaxHops)]
    \cup {[parses |-> FALSE, packet_size |-> 0, header_size |-> 0, mtu_path |-> <<>>]}

\* a mutant: the identifier is not reduced modulo 65536
FragmentIdsNoModulo == {0, 12345, 77881}

\* int(datetime.now().timestamp() * 1000) % 65536
FragmentIds == {0, 12345}

\* arguments of the direct calls of fragment_packet
FpDataSizes == {-1, 0, 1, 8, 100, 556, 1480, 65515}
FpOffsets == {0, 4, 552, 64000, 65528, 65536}
FpHeaderSizes == {20, 24, 60}
FpMtus == {27, 68, 576, 1500}

\* arguments of the direct calls of validate_fragmentation_inputs
ValPacketSizes == {19, 20, 21, 1500, 65535, 65536}
ValHeaderSizes == {16, 20, 22, 24, 60, 64}
ValMtus == {67, 68, 75, 1500, 65535, 65536}

-----------------------------------------------------------------------------
(* IPv4FragmentationApp.validate_inputs *)

ValidateInputs(entry) ==
    IF ~entry.parses THEN Reject("invalid literal for int()", 0)
    ELSE IF entry.mtu_path = <<>> THEN Reject("mtu path empty", 0)
    ELSE ValidateFragmentationInputs(entry.packet_size, entry.header_size, entry.mtu_path)

-----------------------------------------------------------------------------
(* The handlers of IPv4FragmentationApp *)

\* the state __init__ leaves
InitApp ==
    /\ current_results = NoResults
    /\ export_btn = "disabled"
    /\ viz = <<WelcomeWidget>>
    /\ last_dialog = "none"

\* a mutant: the visualization area is cleared before the inputs are validated
RejectInputsAfterClear ==
    /\ viz' = <<>>
    /\ last_dialog' = "Validation Error"
    /\ UNCHANGED <<current_results, export_btn>>

\* validate_inputs raises at the first statement of the try block: nothing is
\* assigned, and the except ValueError handler shows the error dialog
RejectInputs ==
    /\ last_dialog' = "Validation Error"
    /\ UNCHANGED <<current_results, export_btn, viz>>

SimulateFragmentation ==
    \E entry \in Entries, fragment_id \in FragmentIds :
        LET v == ValidateInputs(entry)
            run == RunHops([hop_idx |-> 1,
                            fragments |-> InitialFragments(entry.packet_size,
                                                           entry.header_size, fragment_id),
                            hops |-> <<>>, tables |-> <<>>],
                           entry.mtu_path, entry.header_size)
        IN  IF ~v.ok
            THEN RejectInputs
            ELSE /\ current_results' = NewResults(fragment_id, entry.packet_size,
                                                  entry.header_size, entry.mtu_path, run.hops)
                 /\ IF run.ok
                    THEN /\ viz' = Append(run.tables, FooterWidget)
                         /\ export_btn' = "normal"
                         /\ last_dialog' = "none"
                    ELSE /\ viz' = run.tables
                         /\ export_btn' = export_btn
                         /\ last_dialog' = "Validation Error"

ExportToCsv ==
    /\ IF current_results.is_none
       THEN last_dialog' = "No Data"
       ELSE \E outcome \in {"none", "Export Successful", "Export Error"} :
                /\ (current_results.hops = <<>>) => outcome # "Export Successful"
                /\ last_dialog' = outcome
    /\ UNCHANGED <<current_results, export_btn, viz>>

\* a mutant: the export button is left as it was
ResetInputsKeepsExport ==
    /\ viz' = <<WelcomeWidget>>
    /\ current_results' = NoResults
    /\ export_btn' = export_btn
    /\ last_dialog' = "none"

ResetInputs ==
    /\ viz' = <<WelcomeWidget>>
    /\ current_results' = NoResults
    /\ export_btn' = "disabled"
    /\ last_dialog' = "none"

\* the tables refresh_ui draws again from the stored hops
RECURSIVE RedrawTables(_, _)
RedrawTables(hops, i) ==
    IF i > Len(hops) THEN <<>>
    ELSE <<HopTable(hops[i].hop_num, hops[i].mtu, hops[i].fragments)>>
         \o RedrawTables(hops, i + 1)

RefreshUi ==
    IF ~current_results.is_none
    THEN /\ viz' = Append(RedrawTables(current_results.hops, 1), FooterWidget)
         /\ export_btn' = "normal"
    ELSE /\ viz' = <<WelcomeWidget>>
         /\ export_btn' = "disabled"

\* toggle_theme: switches the colours (not modelled) and calls refresh_ui
ToggleTheme ==
    /\ RefreshUi
    /\ last_dialog' = "none"
    /\ UNCHANGED current_results

-----------------------------------------------------------------------------
(* Direct calls of the two static methods *)

FpIdle ==
    [called |-> FALSE, data_size |-> 0, offset |-> 0, header_size |-> 0, mtu |-> 0,
     fragment_id |-> 0, result |-> Raise("not called")]

ValIdle ==
    [called |-> FALSE, packet_size |-> 0, header_size |-> 0, mtu_path |-> <<>>,
     result |-> Reject("not called", 0)]

\* every chunk but the last holds more than mtu - header_size - 8 bytes
FpArguments ==
    {a \in [called : {FALSE}, data_size : FpDataSizes, offset : FpOffsets,
            header_size : FpHeaderSizes, mtu : FpMtus, fragment_id : FragmentIds,
            result : {Raise("not called")}] :
        \/ a.mtu < a.header_size + 8
        \/ a.data_size <= MaxFragments * (a.mtu - a.header_size - 7)}

ValArguments ==
    [called : {FALSE}, packet_size : ValPacketSizes, header_size : ValHeaderSizes,
     mtu_path : Paths(ValMtus, MaxPathLen), result : {Reject("not called", 0)}]

CallFragmentPacket ==
    /\ ~fp.called
    /\ fp # FpIdle
    /\ fp' = [fp EXCEPT !.called = TRUE,
                        !.result = FragmentPacket(fp.data_size, fp.offset, fp.header_size,
                                                  fp.mtu, fp.fragment_id)]
    /\ UNCHANGED <<current_results, export_btn, viz, last_dialog, val, sim, call>>

CallValidate ==
    /\ ~val.called
    /\ val # ValIdle
    /\ val' = [val EXCEPT !.called = TRUE,
                          !.result = ValidateFragmentationInputs(val.packet_size,
                                                                 val.header_size,
                                                                 val.mtu_path)]
    /\ UNCHANGED <<current_results, export_btn, viz, last_dialog, fp, sim, call>>

-----------------------------------------------------------------------------
(* simulate_fragmentation and fragment_packet, one loop iteration per step *)

SimIdle ==
    [pc |-> "idle", packet_size |-> 0, header_size |-> 0, mtu_path |-> <<>>,
     fragment_id |-> 0, hop_idx |-> 0, fragments |-> <<>>, i |-> 0,
     new_fragments |-> <<>>, hops |-> <<>>]

\* the frame of fragment_packet: its arguments, max_data and the locals s of
\* the while loop
CallFrame(pc, data_size, offset, header_size, mtu, fragment_id) ==
    [pc |-> pc, data_size |-> data_size, offset |-> offset,
     header_size |-> header_size, mtu |-> mtu, fragment_id |-> fragment_id,
     max_data |-> 0, error |-> "none",
     s |-> [fragments |-> <<>>, remaining_data |-> 0, current_offset |-> 0, seq_num |-> 0]]

CallIdle == CallFrame("idle", 0, 0, 0, 0, 0)

\* entries at and beyond the largest packet, for the stepwise run only: the
\* operators above recurse once per fragment, the stepwise run does not
LongEntries ==
    [parses : {TRUE}, packet_size : {65535, 70000}, header_size : {20},
     mtu_path : {<<1500, 68>>}]

\* simulate_fragmentation at the head of its hop loop, for the entries that
\* validate_inputs accepts
SimStartsOf(entries) ==
    {[pc |-> "hop", packet_size |-> e.packet_size, header_size |-> e.header_size,
      mtu_path |-> e.mtu_path, fragment_id |-> id, hop_idx |-> 1,
      fragments |-> InitialFragments(e.packet_size, e.header_size, id), i |-> 0,
      new_fragments |-> <<>>, hops |-> <<>>] :
        e \in {x \in entries : ValidateInputs(x).ok}, id \in FragmentIds}

SimStarts == SimStartsOf(Entries)

\* fragment_packet entered by a direct call
CallStarts ==
    {CallFrame("check", a.data_size, a.offset, a.header_size, a.mtu, a.fragment_id) :
        a \in FpArguments}

\* for hop_idx, mtu in enumerate(mtu_path): the next hop starts with an empty
\* new_fragments, or the loop is over
HopLoopStep ==
    /\ sim.pc = "hop"
    /\ sim' = IF sim.hop_idx > Len(sim.mtu_path)
              THEN [sim EXCEPT !.pc = "done"]
              ELSE [sim EXCEPT !.pc = "fragment", !.new_fragments = <<>>, !.i = 1]
    /\ UNCHANGED call

\* for frag_id, data_len, offset, seq_num in fragments: the fragment is passed
\* through or fragment_packet is called on it; after the last one the hop is
\* stored
FragmentStep ==
    /\ sim.pc = "fragment"
    /\ IF sim.i > Len(sim.fragments)
       THEN /\ sim' = [sim EXCEPT !.pc = "hop",
                                  !.fragments = sim.new_fragments,
                                  !.hops = Append(sim.hops,
                                                  HopData(sim.hop_idx,
                                                          sim.mtu_path[sim.hop_idx],
                                                          sim.new_fragments)),
                                  !.hop_idx = sim.hop_idx + 1]
            /\ UNCHANGED call
       ELSE LET f == sim.fragments[sim.i]
                mtu == sim.mtu_path[sim.hop_idx]
            IN  IF Fits(DataLen(f), sim.header_size, mtu)
                THEN /\ sim' = [sim EXCEPT !.new_fragments = Append(sim.new_fragments, f),
                                           !.i = sim.i + 1]
                     /\ UNCHANGED call
                ELSE /\ sim' = [sim EXCEPT !.pc = "calling"]
                     /\ call' = CallFrame("check", DataLen(f), Offset(f) * 8,
                                          sim.header_size, mtu, FragId(f))

\* a mutant: only a negative data_size is refused, 0 goes on to the loop
CallEnterNoZeroCheck ==
    /\ call.pc = "check"
    /\ call' = IF call.data_size < 0
               THEN [call EXCEPT !.pc = "raised", !.error = "data size cannot be negative"]
               ELSE IF call.mtu < call.header_size + 8
               THEN [call EXCEPT !.pc = "raised", !.error = "mtu too small"]
               ELSE [call EXCEPT !.pc = "loop",
                                 !.max_data = MaxData(call.mtu, call.header_size),
                                 !.s = [fragments |-> <<>>,
                                        remaining_data |-> call.data_size,
                                        current_offset |-> call.offset,
                                        seq_num |-> 1]]
    /\ UNCHANGED sim

\* the precondition checks and the initialisation of the locals
CallEnter ==
    /\ call.pc = "check"
    /\ call' = IF call.data_size < 0
               THEN [call EXCEPT !.pc = "raised", !.error = "data size cannot be negative"]
               ELSE IF call.data_size = 0
               THEN [call EXCEPT !.pc = "raised", !.error = "no data to fragment"]
               ELSE IF call.mtu < call.header_size + 8
               THEN [call EXCEPT !.pc = "raised", !.error = "mtu too small"]
               ELSE [call EXCEPT !.pc = "loop",
                                 !.max_data = MaxData(call.mtu, call.header_size),
                                 !.s = [fragments |-> <<>>,
                                        remaining_data |-> call.data_size,
                                        current_offset |-> call.offset,
                                        seq_num |-> 1]]
    /\ UNCHANGED sim

\* one test of 'while remaining_data > 0' and, if it holds, one loop body
LoopIteration ==
    /\ call.pc = "loop"
    /\ call' = IF ~(call.s.remaining_data > 0)
               THEN [call EXCEPT !.pc = "returned"]
               ELSE LET frag_data == FragData(call.s.remaining_data, call.max_data)
                        fragment_offset == FragmentOffset(call.s.current_offset)
                    IN  IF OffsetTooLarge(fragment_offset)
                        THEN [call EXCEPT !.pc = "raised",
                                          !.error = "offset exceeds maximum"]
                        ELSE [call EXCEPT
                                 !.s = [fragments |->
                                            Append(call.s.fragments,
                                                   <<call.fragment_id, frag_data,
                                                     fragment_offset, call.s.seq_num>>),
                                        remaining_data |-> call.s.remaining_data - frag_data,
                                        current_offset |-> call.s.current_offset + frag_data,
                                        seq_num |-> call.s.seq_num + 1]]
    /\ UNCHANGED sim

\* back in the hop loop: the sub-fragments are renumbered and appended, or the
\* ValueError leaves the loop
ResumeAfterCall ==
    /\ sim.pc = "calling"
    /\ call.pc \in {"returned", "raised"}
    /\ sim' = IF call.pc = "raised"
              THEN [sim EXCEPT !.pc = "failed"]
              ELSE [sim EXCEPT !.pc = "fragment",
                               !.new_fragments =
                                   AppendRenumbered([new_fragments |-> sim.new_fragments,
                                                     idx |-> 1],
                                                    call.s.fragments),
                               !.i = sim.i + 1]
    /\ call' = CallIdle

-----------------------------------------------------------------------------
(* Specifications *)

Init == InitApp /\ fp = FpIdle /\ val = ValIdle /\ sim = SimIdle /\ call = CallIdle

Next ==
    \/ SimulateFragmentation /\ UNCHANGED <<fp, val, sim, call>>
    \/ ExportToCsv /\ UNCHANGED <<fp, val, sim, call>>
    \/ ResetInputs /\ UNCHANGED <<fp, val, sim, call>>
    \/ ToggleTheme /\ UNCHANGED <<fp, val, sim, call>>

\* the application: any sequence of handler invocations
Spec == Init /\ [][Next]_vars

InitFragmenter ==
    InitApp /\ fp \in FpArguments /\ val = ValIdle /\ sim = SimIdle /\ call = CallIdle

NextFragmenter == CallFragmentPacket

\* fragment_packet as a pure function of its arguments
SpecFragmenter == InitFragmenter /\ [][NextFragmenter]_vars

InitValidator ==
    InitApp /\ fp = FpIdle /\ val \in ValArguments /\ sim = SimIdle /\ call = CallIdle

NextValidator == CallValidate

\* validate_fragmentation_inputs as a pure function of its arguments
SpecValidator == InitValidator /\ [][NextValidator]_vars

InitSteps ==
    /\ InitApp /\ fp = FpIdle /\ val = ValIdle
    /\ \/ sim \in SimStarts /\ call = CallIdle
       \/ sim = SimIdle /\ call \in CallStarts

\* the handlers' state and the direct calls take no part in the stepwise run
AppIdle == UNCHANGED <<current_results, export_btn, viz, last_dialog, fp, val>>

NextSteps ==
    \/ HopLoopStep /\ AppIdle
    \/ FragmentStep /\ AppIdle
    \/ CallEnter /\ AppIdle
    \/ LoopIteration /\ AppIdle
    \/ ResumeAfterCall /\ AppIdle

\* a validated simulation, or a direct call of fragment_packet, executed one
\* loop iteration at a time; the interpreter always takes the next step
SpecSteps == InitSteps /\ [][NextSteps]_vars /\ WF_vars(NextSteps)

InitLongSteps ==
    /\ InitApp /\ fp = FpIdle /\ val = ValIdle
    /\ sim \in SimStartsOf(Entries \cup LongEntries)
    /\ call = CallIdle

\* the stepwise simulation alone, also of the largest packet
SpecLongSteps == InitLongSteps /\ [][NextSteps]_vars

-----------------------------------------------------------------------------
(* Properties of the hop loop, stated on the stored report *)

RECURSIVE SumDataLen(_, _)
SumDataLen(fragments, i) ==
    IF i > Len(fragments) THEN 0
    ELSE DataLen(fragments[i]) + SumDataLen(fragments, i + 1)

\* the payload bytes a hop's fragment list carries
TotalData(fragments) == SumDataLen(fragments, 1)

Hops == current_results.hops

HopFragments(k) == Hops[k].fragments

\* a stored run whose second hop split fragments the first hop had already made
Refragmented ==
    /\ ~current_results.is_none
    /\ Len(Hops) >= 2
    /\ Len(HopFragments(1)) >= 2
    /\ Len(HopFragments(2)) > Len(HopFragments(1))

\* C1 (conservation): in every stored report, the data_length values of hop 1
\* sum to packet_size - header_size, and those of every later hop sum to the
\* same total as the hop before it.
C1_Conservation ==
    ~current_results.is_none =>
        \A k \in 1..Len(Hops) :
            TotalData(HopFragments(k)) =
                IF k = 1
                THEN current_results.original_packet_size - current_results.header_size
                ELSE TotalData(HopFragments(k - 1))

C1_Witness ==
    /\ Refragmented
    /\ TotalData(HopFragments(2)) = 180

\* C2 (alignment): in every hop of every stored report, each fragment that is
\* not the last of its hop's list has a data_length that is a multiple of 8.
C2_Alignment ==
    ~current_results.is_none =>
        \A k \in 1..Len(Hops) :
            \A i \in 1..(Len(HopFragments(k)) - 1) :
                DataLen(HopFragments(k)[i]) % 8 = 0

\* a payload that is no multiple of 8, split again at the second hop
C2_Witness ==
    /\ Refragmented
    /\ (current_results.original_packet_size - current_results.header_size) % 8 # 0
    /\ DataLen(HopFragments(2)[Len(HopFragments(2))]) % 8 # 0

\* position i comes before position j when the list is sorted by the sequence
\* field (a stable sort: equal sequence numbers keep their list order)
SeqBefore(fragments, i, j) ==
    \/ SeqNum(fragments[i]) < SeqNum(fragments[j])
    \/ SeqNum(fragments[i]) = SeqNum(fragments[j]) /\ i < j

\* the place of position i in the list sorted by the sequence field
SeqRank(fragments, i) ==
    Cardinality({k \in 1..Len(fragments) : SeqBefore(fragments, k, i)}) + 1

TiledInSequenceOrder(fragments) ==
    \A i, j \in 1..Len(fragments) :
        SeqRank(fragments, j) = SeqRank(fragments, i) + 1 =>
            /\ Offset(fragments[i]) < Offset(fragments[j])
            /\ Offset(fragments[j]) * 8 = Offset(fragments[i]) * 8 + DataLen(fragments[i])

\* C3 (tiling by sequence number): in every hop of every stored report, with
\* the fragments ordered by their sequence field, offset_units is strictly
\* increasing and each fragment starts where the one before it ends.
C3_TiledBySequence ==
    ~current_results.is_none =>
        \A k \in 1..Len(Hops) : TiledInSequenceOrder(HopFragments(k))

\* C4 (consecutive sequence numbers): in every hop of every stored report the
\* sequence fields, read in list order, are 1, 2, ..., n.
C4_SequenceConsecutive ==
    ~current_results.is_none =>
        \A k \in 1..Len(Hops) :
            \A i \in 1..Len(HopFragments(k)) : SeqNum(HopFragments(k)[i]) = i

-----------------------------------------------------------------------------
(* Properties of fragment_packet, stated on one direct call *)

\* the call's preconditions as the contract states them
FpPreconditions == fp.data_size > 0 /\ fp.mtu >= fp.header_size + 8

FpSucceeded == fp.called /\ fp.result.ok

FpFragments == fp.result.fragments

\* floor((mtu - header_size) / 8) * 8, the room of one fragment
FpRoom == ((fp.mtu - fp.header_size) \div 8) * 8

\* ceil(data_size / room), the number of chunks the data needs
FpChunks == (fp.data_size + FpRoom - 1) \div FpRoom

\* the byte at which the last chunk the data needs would start
FpLastStart == fp.offset + (FpChunks - 1) * FpRoom

FpTiles ==
    /\ Len(FpFragments) >= 1
    /\ Offset(FpFragments[1]) * 8 = fp.offset
    /\ \A i \in 1..(Len(FpFragments) - 1) :
           /\ Offset(FpFragments[i + 1]) * 8 =
                  Offset(FpFragments[i]) * 8 + DataLen(FpFragments[i])
           /\ DataLen(FpFragments[i]) % 8 = 0
    /\ \A i \in 1..Len(FpFragments) : DataLen(FpFragments[i]) > 0
    /\ TotalData(FpFragments) = fp.data_size

\* C8 as claimed (tiling guarantee): every successful call with data_size > 0
\* and mtu >= header_size + 8 returns fragments that tile
\* [offset, offset + data_size), the first starting at the start offset.
C8_TilingAsClaimed == (FpSucceeded /\ FpPreconditions) => FpTiles

\* C8 as amended: the same, for calls whose start offset is a multiple of 8
\* (the precondition the docstring of fragment_packet states).
C8_TilingAligned == (FpSucceeded /\ FpPreconditions /\ fp.offset % 8 = 0) => FpTiles

\* a call at a start offset other than 0 that returns three fragments or more,
\* the last of them not aligned
C8_Witness ==
    /\ FpSucceeded
    /\ fp.offset = 552
    /\ Len(FpFragments) >= 3
    /\ DataLen(FpFragments[Len(FpFragments)]) % 8 # 0

\* the i-th fragment of the closed form: room-sized chunks, the rest in the last
FpExpected(i) ==
    <<fp.fragment_id,
      IF i < FpChunks THEN FpRoom ELSE fp.data_size - (FpChunks - 1) * FpRoom,
      ((i - 1) * FpRoom) \div 8,
      i>>

\* the (data_length, offset_units) pairs of the returned fragments
FpShape == [i \in 1..Len(FpFragments) |-> <<DataLen(FpFragments[i]), Offset(FpFragments[i])>>]

DocstringCall ==
    /\ fp.called
    /\ fp.data_size = 1480
    /\ fp.offset = 0
    /\ fp.header_size = 20
    /\ fp.mtu = 576
    /\ fp.fragment_id = 12345

-----------------------------------------------------------------------------
(* Properties of validate_fragmentation_inputs, stated on one direct call *)

\* an MTU the rules of the contract refuse
MtuRefused(mtu, header_size) == mtu < 68 \/ mtu > 65535 \/ mtu < header_size + 8

\* the acceptance set of the contract
InAcceptanceSet(packet_size, header_size, mtu_path) ==
    /\ 20 <= packet_size /\ packet_size <= 65535
    /\ 20 <= header_size /\ header_size <= 60
    /\ header_size % 4 = 0
    /\ packet_size - header_size > 0
    /\ Len(mtu_path) > 0
    /\ \A i \in 1..Len(mtu_path) : ~MtuRefused(mtu_path[i], header_size)

\* C6 (acceptance set): the validator raises nothing exactly for the inputs of
\* the acceptance set; packet_size = header_size = 20 is refused.
C6_AcceptanceSet ==
    val.called =>
        /\ val.result.ok <=> InAcceptanceSet(val.packet_size, val.header_size, val.mtu_path)
        /\ (val.packet_size = 20 /\ val.header_size = 20) => ~val.result.ok

\* the header-only packet of the example, refused although its path is fine
C6_Witness ==
    /\ val.called
    /\ val.packet_size = 20
    /\ val.header_size = 20
    /\ val.mtu_path = <<68>>
    /\ ~val.result.ok

\* the group of rules an error message belongs to
RuleGroup(rule) ==
    CASE rule \in {"packet size below minimum", "packet size exceeds maximum"} -> "packet_size"
      [] rule \in {"header size below minimum", "header size exceeds maximum",
                   "header size not multiple of 4"} -> "header_size"
      [] rule \in {"packet not greater than header", "packet contains no data"} -> "data_size"
      [] rule = "mtu path empty" -> "empty_path"
      [] rule \in {"mtu below minimum", "mtu exceeds maximum",
                   "mtu too small for header"} -> "mtu"
      [] OTHER -> "none"

\* the first group, in the order of the contract, that the input violates
FirstViolatedGroup(packet_size, header_size, mtu_path) ==
    IF packet_size < 20 \/ packet_size > 65535 THEN "packet_size"
    ELSE IF header_size < 20 \/ header_size > 60 \/ header_size % 4 # 0 THEN "header_size"
    ELSE IF packet_size - header_size <= 0 THEN "data_size"
    ELSE IF Len(mtu_path) = 0 THEN "empty_path"
    ELSE IF \E i \in 1..Len(mtu_path) : MtuRefused(mtu_path[i], header_size) THEN "mtu"
    ELSE "none"

\* the 1-indexed position of the first refused MTU of the path (0: none)
FirstRefusedHop(mtu_path, header_size) ==
    LET refused == {i \in 1..Len(mtu_path) : MtuRefused(mtu_path[i], header_size)}
    IN  IF refused = {} THEN 0
        ELSE CHOOSE i \in refused : \A j \in refused : i <= j

\* C7 (error selection): the error raised belongs to the first violated group
\* in the order packet size, header size, data size, empty path, per-hop MTU;
\* an MTU error names the 1-indexed position of the first refused MTU.
C7_ErrorSelection ==
    val.called =>
        /\ RuleGroup(val.result.rule) =
               FirstViolatedGroup(val.packet_size, val.header_size, val.mtu_path)
        /\ val.result.hop =
               IF RuleGroup(val.result.rule) = "mtu"
               THEN FirstRefusedHop(val.mtu_path, val.header_size)
               ELSE 0

\* two refused MTUs behind an accepted one: the first refused one is named
C7_Witness ==
    /\ val.called
    /\ Len(val.mtu_path) = 3
    /\ ~MtuRefused(val.mtu_path[1], val.header_size)
    /\ MtuRefused(val.mtu_path[2], val.header_size)
    /\ MtuRefused(val.mtu_path[3], val.header_size)
    /\ val.result.hop = 2

-----------------------------------------------------------------------------
(* Properties of one hop, stated on its input and its stored output *)

\* the list that enters hop k: the whole payload at hop 1, the list the hop
\* before stored otherwise
HopInput(k) ==
    IF k = 1
    THEN InitialFragments(current_results.original_packet_size,
                          current_results.header_size, current_results.fragment_id)
    ELSE HopFragments(k - 1)

\* the claim's condition: data_length + header_size <= mtu of hop k
FitsHop(f, k) == DataLen(f) + current_results.header_size <= Hops[k].mtu

\* the positions of the hop's output that lie within the bytes of fragment f
Within(out, f) ==
    {p \in 1..Len(out) :
        /\ Offset(out[p]) * 8 >= Offset(f) * 8
        /\ Offset(out[p]) * 8 < Offset(f) * 8 + DataLen(f)}

\* f is in the output at position p, unsplit, after everything made from the
\* fragments before it and before everything made from the fragments after it
PassedThroughAt(out, f, p) ==
    /\ FragId(out[p]) = FragId(f)
    /\ DataLen(out[p]) = DataLen(f)
    /\ Offset(out[p]) = Offset(f)
    /\ Within(out, f) = {p}
    /\ \A q \in 1..Len(out) :
           /\ q < p => Offset(out[q]) < Offset(f)
           /\ q > p => Offset(out[q]) > Offset(f)

\* C11 (pass-through stability): at every hop of every stored report, each
\* incoming fragment with data_length + header_size <= mtu is in the hop's
\* output with the same data_length, offset_units and fragment_id, is not
\* split, and stands between the fragments made from its neighbours.
C11_PassThrough ==
    ~current_results.is_none =>
        \A k \in 1..Len(Hops) :
            \A i \in 1..Len(HopInput(k)) :
                FitsHop(HopInput(k)[i], k) =>
                    \E p \in 1..Len(HopFragments(k)) :
                        PassedThroughAt(HopFragments(k), HopInput(k)[i], p)

\* a fragment that passes through behind fragments the same hop has split
C11_Witness ==
    /\ ~current_results.is_none
    /\ \E k \in 1..Len(Hops) :
           \E i, j \in 1..Len(HopInput(k)) :
               /\ j < i
               /\ FitsHop(HopInput(k)[i], k)
               /\ ~FitsHop(HopInput(k)[j], k)

\* every fragment entering hop k satisfies data_length + header_size <= mtu
NoOpHop(k) == \A i \in 1..Len(HopInput(k)) : FitsHop(HopInput(k)[i], k)

\* C12 (no-op hop): when the MTU of a hop is at least data_length + header_size
\* for every fragment entering it, the hop's output has as many fragments as
\* its input, with the same (data_length, offset_units) at each position.
C12_NoOpHop ==
    ~current_results.is_none =>
        \A k \in 1..Len(Hops) :
            NoOpHop(k) =>
                /\ Len(HopFragments(k)) = Len(HopInput(k))
                /\ \A i \in 1..Len(HopInput(k)) :
                       /\ DataLen(HopFragments(k)[i]) = DataLen(HopInput(k)[i])
                       /\ Offset(HopFragments(k)[i]) = Offset(HopInput(k)[i])

\* a second hop that lets all the fragments of the first through, one of them
\* filling its MTU exactly
C12_Witness ==
    /\ ~current_results.is_none
    /\ Len(Hops) >= 2
    /\ Len(HopFragments(1)) >= 2
    /\ NoOpHop(2)
    /\ \E i \in 1..Len(HopInput(2)) :
           DataLen(HopInput(2)[i]) + current_results.header_size = Hops[2].mtu

-----------------------------------------------------------------------------
(* Properties of the handlers *)

\* the report, the export button and the widgets of the visualization area
AppState == <<current_results, export_btn, viz>>

\* C14 (fail-fast validation): a call of simulate_fragmentation that ends in
\* the validation error dialog leaves current_results, the displayed hop
\* tables and the state of the export button exactly as they were.
C14_FailFast ==
    [][last_dialog' = "Validation Error" => AppState' = AppState]_vars

\* rejected input after a successful run: the run's report, its hop tables and
\* the enabled export button are still there
C14_Witness ==
    /\ last_dialog = "Validation Error"
    /\ ~current_results.is_none
    /\ Len(Hops) = 2
    /\ export_btn = "normal"
    /\ Len(viz) = 3
    /\ viz[1].kind = "hop_table"
    /\ viz[1].fragments = HopFragments(1)

\* C15 (identifier preservation): in every hop of every stored report, every
\* fragment carries the fragment_id of the report, and that identifier lies in
\* 0..65535.
C15_IdPreserved ==
    ~current_results.is_none =>
        /\ current_results.fragment_id \in 0..65535
        /\ \A k \in 1..Len(Hops) :
               \A i \in 1..Len(HopFragments(k)) :
                   FragId(HopFragments(k)[i]) = current_results.fragment_id

\* a nonzero identifier on fragments split twice and on one passed through
C15_Witness ==
    /\ Refragmented
    /\ current_results.fragment_id = 12345
    /\ \E i \in 1..Len(HopFragments(1)) :
           /\ FitsHop(HopFragments(1)[i], 2)
           /\ FragId(HopFragments(1)[i]) = 12345
    /\ FragId(HopFragments(2)[Len(HopFragments(2))]) = 12345

\* the rows of a fragment list whose MF cell reads false
MfClear(fragments) == {i \in 1..Len(fragments) : ~MfFlag(fragments, i)}

\* the fragment ends at the last byte of the payload
EndsPayload(f) ==
    Offset(f) * 8 + DataLen(f) =
        current_results.original_packet_size - current_results.header_size

\* the MF column of one list: false in the last row only, and the fragment of
\* that row ends the payload
MfMarksPayloadEnd(fragments) ==
    /\ Len(fragments) >= 1
    /\ MfClear(fragments) = {Len(fragments)}
    /\ EndsPayload(fragments[Len(fragments)])
    /\ \A i \in 1..(Len(fragments) - 1) : ~EndsPayload(fragments[i])

\* C16 (More-Fragments flag): in each hop of every stored report, and in each
\* hop table on display, exactly one fragment has MF = false; it is the last of
\* the list and it ends the payload (offset_units * 8 + data_length =
\* packet_size - header_size); every other fragment has MF = true.
C16_MoreFragments ==
    ~current_results.is_none =>
        /\ \A k \in 1..Len(Hops) : MfMarksPayloadEnd(HopFragments(k))
        /\ \A w \in 1..Len(viz) :
               viz[w].kind = "hop_table" => MfMarksPayloadEnd(viz[w].fragments)

\* a hop whose last fragment passed through behind fragments the hop split
C16_Witness ==
    /\ Refragmented
    /\ Len(viz) = 3
    /\ viz[2].kind = "hop_table"
    /\ Len(viz[2].fragments) >= 5
    /\ FitsHop(HopFragments(1)[Len(HopFragments(1))], 2)
    /\ MfClear(HopFragments(2)) = {Len(HopFragments(2))}

\* the hop results a simulation of the stored inputs computes when it is run
\* from nothing with the identifier fragment_id
FreshHops(fragment_id) ==
    RunHops([hop_idx |-> 1,
             fragments |-> InitialFragments(current_results.original_packet_size,
                                            current_results.header_size, fragment_id),
             hops |-> <<>>, tables |-> <<>>],
            current_results.mtu_path, current_results.header_size).hops

\* a fragment list without its identifiers
ShapeOfFragments(fragments) ==
    [i \in 1..Len(fragments) |->
        <<DataLen(fragments[i]), Offset(fragments[i]), SeqNum(fragments[i])>>]

\* the (data_length, offset_units, sequence) values of every hop
ShapeOfHops(hops) ==
    [k \in 1..Len(hops) |->
        [hop_num |-> hops[k].hop_num, mtu |-> hops[k].mtu,
         shape |-> ShapeOfFragments(hops[k].fragments)]]

\* C18 (determinism, no cross-run state): whatever was simulated before, the
\* stored report holds the per-hop fragment lists that a simulation of the
\* same packet_size, header_size, mtu_path and fragment_id computes from
\* nothing; and the (data_length, offset_units, sequence) values of every hop
\* are those computed with any other fragment_id.
C18_Deterministic ==
    ~current_results.is_none =>
        /\ Hops = FreshHops(current_results.fragment_id)
        /\ \A fragment_id \in FragmentIds :
               ShapeOfHops(Hops) = ShapeOfHops(FreshHops(fragment_id))

\* a report of a twice-split packet under a nonzero identifier, on display
\* after a validation error, that has the shape of the run with identifier 0
C18_Witness ==
    /\ Refragmented
    /\ current_results.fragment_id = 12345
    /\ last_dialog = "Validation Error"
    /\ ShapeOfHops(Hops) = ShapeOfHops(FreshHops(0))
    /\ Hops # FreshHops(0)

-----------------------------------------------------------------------------
(* Properties of fragment_packet's offset check *)

\* the byte at which chunk j (0-based) of the call starts
FpChunkStart(j) == fp.offset + j * FpRoom

\* the chunks the call would emit: none when a precondition fails
FpChunkIndexes == IF FpPreconditions THEN 0..(FpChunks - 1) ELSE {}

FpOffsetError == ~fp.result.ok /\ fp.result.error = "offset exceeds maximum"

\* C19 (overflow detection): a call fails with the offset error if and only if
\* some chunk it would emit starts at a byte offset whose floor(offset / 8)
\* exceeds 8191, that is at byte 65536 or beyond; and a failed call returns no
\* fragment list, not even the chunks that were within the bound.
C19_OverflowDetection ==
    fp.called =>
        /\ FpOffsetError <=> \E j \in FpChunkIndexes : FpChunkStart(j) \div 8 > 8191
        /\ FpOffsetError <=> \E j \in FpChunkIndexes : FpChunkStart(j) >= 65536
        /\ ~fp.result.ok => FpFragments = <<>>

\* a call whose first chunk starts at unit 8191, the last one allowed, and
\* whose second chunk would start beyond it
C19_Witness ==
    /\ fp.called
    /\ FpPreconditions
    /\ fp.offset = 65528
    /\ FpChunks >= 2
    /\ FpChunkStart(1) >= 65536
    /\ FpOffsetError
    /\ FpFragments = <<>>

\* the hop results of the simulation stopped after the first i hops of the
\* stored path: what the report held when hop i had just been recorded
HopsRecordedAfter(i) ==
    RunHops([hop_idx |-> 1,
             fragments |-> InitialFragments(current_results.original_packet_size,
                                            current_results.header_size,
                                            current_results.fragment_id),
             hops |-> <<>>, tables |-> <<>>],
            SubSeq(current_results.mtu_path, 1, i), current_results.header_size).hops

\* C20 (hop history): a stored report holds exactly len(mtu_path) hop results,
\* the i-th with hop number i and the MTU mtu_path[i]; and the fragment list
\* of hop i is the list recorded when hop i was processed, unchanged by the
\* hops after it, and the list its table shows.
C20_HopHistory ==
    ~current_results.is_none =>
        /\ Len(Hops) = Len(current_results.mtu_path)
        /\ \A i \in 1..Len(Hops) :
               /\ Hops[i].hop_num = i
               /\ Hops[i].mtu = current_results.mtu_path[i]
               /\ HopFragments(i) = HopsRecordedAfter(i)[i].fragments
               /\ viz[i] = HopTable(i, current_results.mtu_path[i], HopFragments(i))

\* two hops with different MTUs, the second of which splits the list the first
\* recorded
C20_Witness ==
    /\ Refragmented
    /\ Len(Hops) = 2
    /\ current_results.mtu_path = <<100, 68>>
    /\ Hops[2].hop_num = 2
    /\ Hops[2].mtu = 68
    /\ HopFragments(1) = HopsRecordedAfter(1)[1].fragments

-----------------------------------------------------------------------------
(* Properties of the stepwise run *)

\* the stepwise run computes what the operators FragmentPacket and RunHops do
\* (compared on the short runs the operators can evaluate)
StepsAgree ==
    /\ (sim.pc = "idle" /\ call.pc \in {"returned", "raised"}) =>
           LET r == FragmentPacket(call.data_size, call.offset, call.header_size,
                                   call.mtu, call.fragment_id)
           IN  /\ r.ok = (call.pc = "returned")
               /\ r.ok => r.fragments = call.s.fragments
               /\ ~r.ok => r.error = call.error
    /\ (sim.pc = "done" /\ sim.packet_size \in AppPacketSizes) =>
           sim.hops = RunHops([hop_idx |-> 1,
                               fragments |-> InitialFragments(sim.packet_size,
                                                              sim.header_size,
                                                              sim.fragment_id),
                               hops |-> <<>>, tables |-> <<>>],
                              sim.mtu_path, sim.header_size).hops

\* the simulation has left its hop loop normally, having stored one result per
\* hop of the path
SimulationDone ==
    /\ sim.pc = "done"
    /\ sim.hop_idx = Len(sim.mtu_path) + 1
    /\ Len(sim.hops) = Len(sim.mtu_path)

\* a direct call of fragment_packet has returned or raised
DirectCallOver == sim.pc = "idle" /\ call.pc \in {"returned", "raised"}

\* a loop body of fragment_packet has run
LoopBodyRan ==
    /\ call.pc = "loop"
    /\ call'.pc = "loop"
    /\ call'.s # call.s

\* the body took at least 8 bytes, or all, of remaining_data
TookEightOrAll ==
    /\ call'.s.remaining_data >= 0
    /\ \/ call'.s.remaining_data <= call.s.remaining_data - 8
       \/ call'.s.remaining_data = 0 /\ call.s.remaining_data > 0

\* C17 (termination): every validated simulation leaves its hop loop after
\* exactly len(mtu_path) hops and every call of fragment_packet ends, each
\* iteration of its loop removing at least 8 bytes, or all, of remaining_data.
C17_Termination ==
    /\ [][LoopBodyRan => TookEightOrAll]_vars
    /\ <>(SimulationDone \/ DirectCallOver)

\* a two-hop simulation has ended whose second hop called fragment_packet on
\* fragments of the first
C17_Witness ==
    /\ SimulationDone
    /\ Len(sim.mtu_path) = 2
    /\ Len(sim.hops[1].fragments) >= 2
    /\ Len(sim.hops[2].fragments) > Len(sim.hops[1].fragments)

\* the arguments of the running call break a precondition of fragment_packet
CallBreaksPrecondition ==
    call.data_size <= 0 \/ call.mtu < call.header_size + 8

PreconditionErrors ==
    {"data size cannot be negative", "no data to fragment", "mtu too small"}

\* C21 (precondition errors): a call of fragment_packet with data_size <= 0 or
\* with mtu < header_size + 8 raises one of the precondition errors without
\* entering the loop and without producing a fragment; and no call returns an
\* empty list.
C21_PreconditionErrors ==
    /\ (call.pc \notin {"idle", "check"} /\ CallBreaksPrecondition) =>
           /\ call.pc = "raised"
           /\ call.error \in PreconditionErrors
           /\ call.s.fragments = <<>>
    /\ call.pc = "returned" => Len(call.s.fragments) >= 1

\* a direct call with no data and an MTU that has room: refused at the second
\* check
C21_Witness ==
    /\ sim.pc = "idle"
    /\ call.pc = "raised"
    /\ call.data_size = 0
    /\ call.mtu >= call.header_size + 8
    /\ call.error = "no data to fragment"
    /\ call.s.fragments = <<>>

\* C22 (every fragment fits its hop): in every hop of every stored report,
\* each fragment has 0 < data_length and data_length + header_size <= the
\* hop's MTU.
C22_FragmentsFit ==
    ~current_results.is_none =>
        \A k \in 1..Len(Hops) :
            \A i \in 1..Len(HopFragments(k)) :
                /\ 0 < DataLen(HopFragments(k)[i])
                /\ DataLen(HopFragments(k)[i]) + current_results.header_size <= Hops[k].mtu

\* a second hop with the smaller MTU: it holds fragments that fill its MTU
\* exactly, made by splitting, and a short last fragment that passed through
C22_Witness ==
    /\ Refragmented
    /\ Hops[2].mtu < Hops[1].mtu
    /\ DataLen(HopFragments(2)[1]) + current_results.header_size = Hops[2].mtu
    /\ DataLen(HopFragments(2)[Len(HopFragments(2))]) + current_results.header_size
           < Hops[2].mtu - 8
    /\ HopFragments(2)[Len(HopFragments(2))] \in
           {HopFragments(1)[i] : i \in 1..Len(HopFragments(1))}

\* every fragment the running simulation holds: those of the stored hops, of
\* the hop under way and of the call under way
SimFragmentLists ==
    {sim.hops[k].fragments : k \in 1..Len(sim.hops)}
        \cup {sim.fragments, sim.new_fragments, call.s.fragments}

\* C23 (overflow unreachable after validation): in a validated simulation no
\* call of fragment_packet raises, neither the offset error nor a precondition
\* error, the hop loop is never left by an error, and every offset_units that
\* occurs is below 8191.
C23_NoOverflowAfterValidation ==
    sim.pc # "idle" =>
        /\ call.pc # "raised"
        /\ sim.pc # "failed"
        /\ \A fragments \in SimFragmentLists :
               \A i \in 1..Len(fragments) : Offset(fragments[i]) < 8191

\* the largest packet over MTUs 1500 and 68 has completed both hops; its last
\* fragment starts at unit 8188
C23_Witness ==
    /\ SimulationDone
    /\ sim.packet_size = max_packet_size
    /\ Len(sim.hops) = 2
    /\ \E i \in 1..Len(sim.hops[2].fragments) :
           Offset(sim.hops[2].fragments[i]) >= 8188

\* two lists with the same (data_length, offset_units) at every position
SameBoundaries(a, b) ==
    /\ Len(a) = Len(b)
    /\ \A i \in 1..Len(a) :
           /\ DataLen(a[i]) = DataLen(b[i])
           /\ Offset(a[i]) = Offset(b[i])

\* the MTU of hop k is at least the MTU of a hop before it
MtuSeenBefore(k) == \E j \in 1..(k - 1) : Hops[k].mtu >= Hops[j].mtu

ExportTracksResults ==
    /\ (export_btn = "normal") <=> ~current_results.is_none
    /\ ~current_results.is_none => Len(Hops) >= 1

\* C25 (export availability): after any sequence of simulations, resets, theme
\* toggles and exports, the export button is enabled if and only if
\* current_results is set, a stored report has a non-empty hop list, and an
\* export that finds no results only shows the warning and changes nothing.
C25_ExportAvailability ==
    /\ []ExportTracksResults
    /\ [][last_dialog' = "No Data" => (current_results.is_none /\ AppState' = AppState)]_vars

\* an export tried when nothing is stored: the warning is up, the button is
\* disabled and the welcome message is on display
C25_Witness ==
    /\ last_dialog = "No Data"
    /\ current_results.is_none
    /\ export_btn = "disabled"
    /\ viz = <<WelcomeWidget>>

-----------------------------------------------------------------------------
(* Properties of the validator's MTU loop *)

\* the call got as far as the loop over the MTU path
ReachedMtuLoop ==
    /\ val.called
    /\ RuleGroup(val.result.rule) \in {"mtu", "none"}

OutsideMtuLimits(mtu) == mtu < 68 \/ mtu > 65535

\* C26 (unreachable branch): no call of the validator raises 'MTU too small
\* for header + minimum data'; a call that reaches the MTU loop refuses the
\* path exactly when one of its MTUs lies outside [68, 65535], and the MTU it
\* names is such a one.
C26_HeaderBranchUnreachable ==
    val.called =>
        /\ val.result.rule # "mtu too small for header"
        /\ ReachedMtuLoop =>
               /\ ~val.result.ok <=>
                      \E i \in 1..Len(val.mtu_path) : OutsideMtuLimits(val.mtu_path[i])
               /\ ~val.result.ok => OutsideMtuLimits(val.mtu_path[val.result.hop])

\* the largest header with an MTU one byte short of header + 8: refused, and
\* by the lower limit
C26_Witness ==
    /\ val.called
    /\ val.header_size = 60
    /\ Len(val.mtu_path) >= 1
    /\ val.mtu_path[1] = 67
    /\ val.result.rule = "mtu below minimum"
    /\ val.result.hop = 1

-----------------------------------------------------------------------------
(* Properties of the chunk size in fragment_packet's loop *)

\* remaining_data > max_data: the chunk about to be cut is not the final one
NonFinalChunk == call.pc = "loop" /\ call.s.remaining_data > call.max_data

\* the bytes the loop body took
ChunkTaken == call.s.remaining_data - call'.s.remaining_data

\* C27 (re-alignment is a no-op): max_data is a multiple of 8 when the loop
\* runs, so flooring a non-final chunk to a multiple of 8 leaves it as it is:
\* every non-final chunk is exactly max_data bytes, min(remaining_data,
\* max_data) unchanged.
C27_RealignmentNoOp ==
    /\ [](call.pc = "loop" => call.max_data % 8 = 0)
    /\ [][(LoopBodyRan /\ NonFinalChunk) =>
              /\ ChunkTaken = call.max_data
              /\ ChunkTaken = Min(call.s.remaining_data, call.max_data)
              /\ DataLen(call'.s.fragments[Len(call'.s.fragments)]) = call.max_data]_vars

\* mtu - header_size is no multiple of 8, two chunks of max_data have been
\* cut and more data remains
C27_Witness ==
    /\ call.pc = "loop"
    /\ (call.mtu - call.header_size) % 8 # 0
    /\ Len(call.s.fragments) = 2
    /\ DataLen(call.s.fragments[1]) = call.max_data
    /\ DataLen(call.s.fragments[2]) = call.max_data
    /\ call.s.remaining_data > 0

=============================================================================
